---- MODULE Spec2Model ----
(***************************************************************************)
(* A model of the response decoders of linebot/response.go and of the      *)
(* Push/Reply call pipeline exercised by linebot/send_message_test.go.     *)
(*                                                                         *)
(* A response body is a sequence of JSON tokens.  The platform writes the  *)
(* tokens of a JSON value (Serialize), possibly cut short or followed by   *)
(* other bytes; json.Decoder.Decode is modelled by what it does: it scans  *)
(* the first JSON value of the stream (ScanValue) and stores it into the   *)
(* Go struct (Unmarshal...).  Object keys are written in the exact case of *)
(* the struct tags and at most once per object.                            *)
(***************************************************************************)
EXTENDS Integers, Sequences, FiniteSets, TLC

VARIABLES
    res,       \* the *http.Response handed to a decoder: StatusCode, Header, Body
    bodyVal,   \* the JSON value the platform serialised into res.Body (history)
    mangle,    \* how the platform's bytes reached the client (history)
    decoder,   \* which decoder the call site uses
    pos,       \* number of tokens of res.Body read from the stream so far
    closed,    \* whether Close was called on res.Body
    ret,       \* the (result, error) pair the decoder returned
    pc,        \* "start" before the decoder ran, "returned" when it has returned,
               \* "owned" once the caller uses the stream it was given;
               \* in the call pipeline "idle" or "waiting" (Do blocked on the round trip)
    callerMessages,  \* the messages the caller pushes or replies with
    api,       \* which of Push and Reply built the Call (history)
    call,      \* the Call built by Push or Reply, Nil before
    runs,      \* number of Do invocations on the current Call (history)
    dos,       \* number of Do invocations so far (history)
    sent,      \* number of requests put on the wire so far
    request,   \* the last request put on the wire
    srv,       \* the platform: "idle", "handling" a request, "responded"
    wire,      \* the response the platform wrote, until the client takes it
    outcomes   \* what each Do invocation returned, in order (history)

decVars == <<res, bodyVal, mangle, decoder, pos, closed, ret>>
callVars == <<callerMessages, api, call, runs, dos, sent, request, srv, wire, outcomes>>
vars == <<res, bodyVal, mangle, decoder, pos, closed, ret, pc,
          callerMessages, api, call, runs, dos, sent, request, srv, wire, outcomes>>

\* Longest "details" array the platform sends.
MaxDetails == 2
\* Longest message list a caller pushes or replies with.
MaxMessages == 2
\* Number of Do invocations followed.
MaxDo == 2

\* http.StatusOK and the other status codes the platform answers with.
StatusOK == 200
StatusBadRequest == 400
\* A 2xx status code other than 200.
StatusCreated == StatusOK + 1
StatusCodes == {StatusOK, StatusCreated, StatusBadRequest}

Nil == [kind |-> "nil"]

---------------------------------------------------------------------------
(* JSON values and their wire form *)

JStr(s) == [t |-> "str", s |-> s, items |-> <<>>]
JNumber(s) == [t |-> "num", s |-> s, items |-> <<>>]
JNum == JNumber("0")
JNull == [t |-> "null", s |-> "", items |-> <<>>]
JArr(items) == [t |-> "arr", s |-> "", items |-> items]
JObj(members) == [t |-> "obj", s |-> "", items |-> members]
Member(k, v) == [k |-> k, v |-> v]

Tok(k, s) == [k |-> k, s |-> s]
LBrace == Tok("{", "")
RBrace == Tok("}", "")
LBrack == Tok("[", "")
RBrack == Tok("]", "")
Colon == Tok(":", "")
Comma == Tok(",", "")
Junk == Tok("junk", "<html>")

RECURSIVE Serialize(_)
RECURSIVE SerializeItems(_, _)
RECURSIVE SerializeMembers(_, _)

\* The tokens of a JSON value, as the platform writes them.
Serialize(v) ==
    CASE v.t = "str" -> <<Tok("str", v.s)>>
      [] v.t = "num" -> <<Tok("num", v.s)>>
      [] v.t = "null" -> <<Tok("null", "")>>
      [] v.t = "arr" -> <<LBrack>> \o SerializeItems(v.items, 1) \o <<RBrack>>
      [] v.t = "obj" -> <<LBrace>> \o SerializeMembers(v.items, 1) \o <<RBrace>>

SerializeItems(items, i) ==
    IF i > Len(items) THEN <<>>
    ELSE (IF i > 1 THEN <<Comma>> ELSE <<>>)
         \o Serialize(items[i]) \o SerializeItems(items, i + 1)

SerializeMembers(members, i) ==
    IF i > Len(members) THEN <<>>
    ELSE (IF i > 1 THEN <<Comma>> ELSE <<>>)
         \o <<Tok("str", members[i].k), Colon>>
         \o Serialize(members[i].v) \o SerializeMembers(members, i + 1)

---------------------------------------------------------------------------
(* json.Decoder.Decode: scanning the first value of the stream *)

ScanOk(v, next) == [ok |-> TRUE, v |-> v, next |-> next, at |-> next - 1]
\* A failed scan: the scanner read the stream up to token `at` (to its end when
\* the value is cut short) before it gave up.
ScanErr(at) == [ok |-> FALSE, v |-> JNull, next |-> 0, at |-> at]

RECURSIVE ScanValue(_, _)
RECURSIVE ScanItems(_, _, _)
RECURSIVE ScanMembers(_, _, _)

\* Scans one JSON value starting at token i.
ScanValue(toks, i) ==
    IF i > Len(toks) THEN ScanErr(Len(toks))
    ELSE CASE toks[i].k = "str" -> ScanOk(JStr(toks[i].s), i + 1)
           [] toks[i].k = "num" -> ScanOk(JNumber(toks[i].s), i + 1)
           [] toks[i].k = "null" -> ScanOk(JNull, i + 1)
           [] toks[i].k = "[" ->
                IF i + 1 <= Len(toks) /\ toks[i + 1].k = "]"
                THEN ScanOk(JArr(<<>>), i + 2)
                ELSE ScanItems(toks, i + 1, <<>>)
           [] toks[i].k = "{" ->
                IF i + 1 <= Len(toks) /\ toks[i + 1].k = "}"
                THEN ScanOk(JObj(<<>>), i + 2)
                ELSE ScanMembers(toks, i + 1, <<>>)
           [] OTHER -> ScanErr(i)

\* Scans "value (, value)* ]" starting at token i; acc holds the items so far.
ScanItems(toks, i, acc) ==
    LET r == ScanValue(toks, i) IN
    IF ~r.ok THEN r
    ELSE IF r.next > Len(toks) THEN ScanErr(Len(toks))
    ELSE IF toks[r.next].k = "]" THEN ScanOk(JArr(Append(acc, r.v)), r.next + 1)
    ELSE IF toks[r.next].k = "," THEN ScanItems(toks, r.next + 1, Append(acc, r.v))
    ELSE ScanErr(r.next)

\* Scans "key : value (, key : value)* }" starting at token i.
ScanMembers(toks, i, acc) ==
    IF i > Len(toks) THEN ScanErr(Len(toks))
    ELSE IF toks[i].k # "str" THEN ScanErr(i)
    ELSE IF i + 1 > Len(toks) THEN ScanErr(Len(toks))
    ELSE IF toks[i + 1].k # ":" THEN ScanErr(i + 1)
    ELSE LET r == ScanValue(toks, i + 2) IN
         IF ~r.ok THEN r
         ELSE IF r.next > Len(toks) THEN ScanErr(Len(toks))
         ELSE IF toks[r.next].k = "}"
              THEN ScanOk(JObj(Append(acc, Member(toks[i].s, r.v))), r.next + 1)
         ELSE IF toks[r.next].k = ","
              THEN ScanMembers(toks, r.next + 1, Append(acc, Member(toks[i].s, r.v)))
         ELSE ScanErr(r.next)

---------------------------------------------------------------------------
(* json.Decoder.Decode: storing the scanned value into a Go struct *)

ZeroBasicResponse == [RequestID |-> ""]
ZeroErrorResponseDetail == [Message |-> "", Property |-> ""]
ZeroErrorResponse == [RequestID |-> "", Message |-> "", Details |-> <<>>]
ZeroUserProfileResponse ==
    [RequestID |-> "", UserID |-> "", DisplayName |-> "",
     PicutureURL |-> "", StatusMessage |-> ""]

\* The json struct tags: JSON key -> Go field, for the string fields.
BasicResponseTags == "requestId" :> "RequestID"
ErrorResponseDetailTags == ("message" :> "Message") @@ ("property" :> "Property")
ErrorResponseTags == ("requestId" :> "RequestID") @@ ("message" :> "Message")
UserProfileResponseTags ==
    ("requestId" :> "RequestID") @@ ("userId" :> "UserID")
    @@ ("displayName" :> "DisplayName") @@ ("pictureUrl" :> "PicutureURL")
    @@ ("statusMessage" :> "StatusMessage")

RECURSIVE UnmarshalStruct(_, _, _, _)
RECURSIVE UnmarshalFields(_, _, _, _, _)
RECURSIVE UnmarshalDetails(_, _, _)

\* Stores JSON value v into a struct whose zero value is `zero`, whose string
\* fields are tagged `tags` and whose []errorResponseDetail field, if any, is
\* tagged sliceTag.  A value of the wrong JSON type is an UnmarshalTypeError
\* (err); null leaves the struct as it is.
UnmarshalStruct(v, zero, tags, sliceTag) ==
    CASE v.t = "obj" ->
            UnmarshalFields(v.items, 1, [err |-> FALSE, val |-> zero], tags, sliceTag)
      [] v.t = "null" -> [err |-> FALSE, val |-> zero]
      [] OTHER -> [err |-> TRUE, val |-> zero]

UnmarshalFields(members, i, acc, tags, sliceTag) ==
    IF i > Len(members) THEN acc
    ELSE LET m == members[i] IN
         IF m.k \in DOMAIN tags
         THEN CASE m.v.t = "str" ->
                     UnmarshalFields(members, i + 1,
                         [acc EXCEPT !.val[tags[m.k]] = m.v.s], tags, sliceTag)
                [] m.v.t = "null" ->
                     UnmarshalFields(members, i + 1, acc, tags, sliceTag)
                [] OTHER ->
                     UnmarshalFields(members, i + 1,
                         [acc EXCEPT !.err = TRUE], tags, sliceTag)
         ELSE IF m.k = sliceTag
         THEN CASE m.v.t = "arr" ->
                     LET d == UnmarshalDetails(m.v.items, 1,
                                               [err |-> FALSE, val |-> <<>>]) IN
                     UnmarshalFields(members, i + 1,
                         [err |-> acc.err \/ d.err,
                          val |-> [acc.val EXCEPT !.Details = d.val]],
                         tags, sliceTag)
                [] m.v.t = "null" ->
                     UnmarshalFields(members, i + 1,
                         [acc EXCEPT !.val.Details = <<>>], tags, sliceTag)
                [] OTHER ->
                     UnmarshalFields(members, i + 1,
                         [acc EXCEPT !.err = TRUE], tags, sliceTag)
         ELSE UnmarshalFields(members, i + 1, acc, tags, sliceTag)

\* Stores the items of a JSON array into a []errorResponseDetail, in order.
UnmarshalDetails(items, i, acc) ==
    IF i > Len(items) THEN acc
    ELSE LET e == UnmarshalStruct(items[i], ZeroErrorResponseDetail,
                                  ErrorResponseDetailTags, "") IN
         UnmarshalDetails(items, i + 1,
             [err |-> acc.err \/ e.err, val |-> Append(acc.val, e.val)])

\* decoder.Decode(&result): err, the struct, and how far the stream was scanned.
Decode(body, zero, tags, sliceTag) ==
    LET s == ScanValue(body, 1) IN
    IF ~s.ok THEN [err |-> TRUE, val |-> zero, at |-> s.at]
    ELSE LET u == UnmarshalStruct(s.v, zero, tags, sliceTag) IN
         [err |-> u.err, val |-> u.val, at |-> s.at]

---------------------------------------------------------------------------
(* mime.ParseMediaType on the Content-Disposition header *)

\* A header value is a sequence of words and the separators ";" and "=".
IsWord(t) == t \notin {";", "="}
ToLower(w) == IF w = "FILENAME" THEN "filename" ELSE w

RECURSIVE ConsumeMediaParams(_, _, _)
ConsumeMediaParams(h, i, params) ==
    IF i > Len(h) THEN [err |-> FALSE, params |-> params]
    ELSE IF /\ i + 3 <= Len(h)
            /\ h[i] = ";" /\ IsWord(h[i + 1]) /\ h[i + 2] = "=" /\ IsWord(h[i + 3])
    THEN IF ToLower(h[i + 1]) \in DOMAIN params
         THEN [err |-> TRUE, params |-> <<>>]     \* duplicate parameter name
         ELSE ConsumeMediaParams(h, i + 4,
                  params @@ (ToLower(h[i + 1]) :> h[i + 3]))
    ELSE IF i = Len(h) /\ h[i] = ";"
    THEN [err |-> FALSE, params |-> params]       \* trailing semicolon ignored
    ELSE [err |-> TRUE, params |-> <<>>]          \* invalid media parameter

ParseMediaType(h) ==
    IF Len(h) = 0 \/ ~IsWord(h[1])
    THEN [err |-> TRUE, params |-> <<>>]          \* no media type
    ELSE ConsumeMediaParams(h, 2, <<>>)

\* params["filename"]: the empty string when the map has no such key.
MapGet(params, key) == IF key \in DOMAIN params THEN params[key] ELSE ""

---------------------------------------------------------------------------
(* The decoders of response.go *)

APIError(code, response) == [kind |-> "APIError", Code |-> code, Response |-> response]
\* An error of json or mime, not an *APIError.
PlainError(from) == [kind |-> "error", from |-> from]
Value(kind, val) == [kind |-> kind, val |-> val]
\* What a decoder returns, and `at`: how far its json.Decoder scanned res.Body
\* (-1 when Decode was never called, so that nothing was read from the stream).
Return(result, err, at) == [result |-> result, err |-> err, at |-> at]
NotRead == -1

\* Mutant: every 2xx status takes the success branch.
decodeToBasicResponse_Any2xx(r) ==
    IF r.StatusCode \div 100 # StatusOK \div 100
    THEN LET d == Decode(r.Body, ZeroErrorResponse, ErrorResponseTags, "details") IN
         IF d.err THEN Return(Nil, APIError(r.StatusCode, Nil), d.at)
         ELSE Return(Nil, APIError(r.StatusCode, d.val), d.at)
    ELSE LET d == Decode(r.Body, ZeroBasicResponse, BasicResponseTags, "") IN
         IF d.err THEN Return(Nil, PlainError("json"), d.at)
         ELSE Return(Value("BasicResponse", d.val), Nil, d.at)

\* Mutant: a 200 body that fails to decode is returned beside the error.
decodeToBasicResponse_ResultWithError(r) ==
    IF r.StatusCode # StatusOK
    THEN LET d == Decode(r.Body, ZeroErrorResponse, ErrorResponseTags, "details") IN
         IF d.err THEN Return(Nil, APIError(r.StatusCode, Nil), d.at)
         ELSE Return(Nil, APIError(r.StatusCode, d.val), d.at)
    ELSE LET d == Decode(r.Body, ZeroBasicResponse, BasicResponseTags, "") IN
         IF d.err THEN Return(Value("BasicResponse", d.val), PlainError("json"), d.at)
         ELSE Return(Value("BasicResponse", d.val), Nil, d.at)

decodeToBasicResponse(r) ==
    IF r.StatusCode # StatusOK
    THEN LET d == Decode(r.Body, ZeroErrorResponse, ErrorResponseTags, "details") IN
         IF d.err THEN Return(Nil, APIError(r.StatusCode, Nil), d.at)
         ELSE Return(Nil, APIError(r.StatusCode, d.val), d.at)
    ELSE LET d == Decode(r.Body, ZeroBasicResponse, BasicResponseTags, "") IN
         IF d.err THEN Return(Nil, PlainError("json"), d.at)
         ELSE Return(Value("BasicResponse", d.val), Nil, d.at)

\* Mutant: the failure to decode an error body is returned as it is.
decodeToUserProfileResponse_PropagatesDecodeError(r) ==
    IF r.StatusCode # StatusOK
    THEN LET d == Decode(r.Body, ZeroErrorResponse, ErrorResponseTags, "details") IN
         IF d.err THEN Return(Nil, PlainError("json"), d.at)
         ELSE Return(Nil, APIError(r.StatusCode, d.val), d.at)
    ELSE LET d == Decode(r.Body, ZeroUserProfileResponse, UserProfileResponseTags, "") IN
         IF d.err THEN Return(Nil, PlainError("json"), d.at)
         ELSE Return(Value("UserProfileResponse", d.val), Nil, d.at)

\* Mutant: the success branch decodes with the tags of BasicResponse.
decodeToUserProfileResponse_BasicTags(r) ==
    IF r.StatusCode # StatusOK
    THEN LET d == Decode(r.Body, ZeroErrorResponse, ErrorResponseTags, "details") IN
         IF d.err THEN Return(Nil, APIError(r.StatusCode, Nil), d.at)
         ELSE Return(Nil, APIError(r.StatusCode, d.val), d.at)
    ELSE LET d == Decode(r.Body, ZeroUserProfileResponse, BasicResponseTags, "") IN
         IF d.err THEN Return(Nil, PlainError("json"), d.at)
         ELSE Return(Value("UserProfileResponse", d.val), Nil, d.at)

decodeToUserProfileResponse(r) ==
    IF r.StatusCode # StatusOK
    THEN LET d == Decode(r.Body, ZeroErrorResponse, ErrorResponseTags, "details") IN
         IF d.err THEN Return(Nil, APIError(r.StatusCode, Nil), d.at)
         ELSE Return(Nil, APIError(r.StatusCode, d.val), d.at)
    ELSE LET d == Decode(r.Body, ZeroUserProfileResponse, UserProfileResponseTags, "") IN
         IF d.err THEN Return(Nil, PlainError("json"), d.at)
         ELSE Return(Value("UserProfileResponse", d.val), Nil, d.at)

\* Mutant: a header that does not parse is reported as an APIError.
decodeToMessageContentResponse_WrapsHeaderError(r) ==
    IF r.StatusCode # StatusOK
    THEN LET d == Decode(r.Body, ZeroErrorResponse, ErrorResponseTags, "details") IN
         IF d.err THEN Return(Nil, APIError(r.StatusCode, Nil), d.at)
         ELSE Return(Nil, APIError(r.StatusCode, d.val), d.at)
    ELSE LET p == ParseMediaType(r.Header) IN
         IF p.err THEN Return(Nil, APIError(r.StatusCode, Nil), NotRead)
         ELSE Return(Value("MessageContentResponse",
                           [Content |-> "res.Body",
                            FileName |-> MapGet(p.params, "filename")]),
                     Nil, NotRead)

\* Mutant: the content is read into memory before it is handed over.
decodeToMessageContentResponse_ReadsBody(r) ==
    IF r.StatusCode # StatusOK
    THEN LET d == Decode(r.Body, ZeroErrorResponse, ErrorResponseTags, "details") IN
         IF d.err THEN Return(Nil, APIError(r.StatusCode, Nil), d.at)
         ELSE Return(Nil, APIError(r.StatusCode, d.val), d.at)
    ELSE LET p == ParseMediaType(r.Header) IN
         IF p.err THEN Return(Nil, PlainError("mime"), NotRead)
         ELSE Return(Value("MessageContentResponse",
                           [Content |-> "res.Body",
                            FileName |-> MapGet(p.params, "filename")]),
                     Nil, Len(r.Body))

decodeToMessageContentResponse(r) ==
    IF r.StatusCode # StatusOK
    THEN LET d == Decode(r.Body, ZeroErrorResponse, ErrorResponseTags, "details") IN
         IF d.err THEN Return(Nil, APIError(r.StatusCode, Nil), d.at)
         ELSE Return(Nil, APIError(r.StatusCode, d.val), d.at)
    ELSE LET p == ParseMediaType(r.Header) IN
         IF p.err THEN Return(Nil, PlainError("mime"), NotRead)
         ELSE Return(Value("MessageContentResponse",
                           [Content |-> "res.Body",
                            FileName |-> MapGet(p.params, "filename")]),
                     Nil, NotRead)

---------------------------------------------------------------------------
(* The responses the platform sends *)

Detail(property) ==
    JObj(<<Member("message", JStr("may not be empty")),
           Member("property", JStr(property))>>)
DetailItems == {Detail("messages[0].text"), Detail("messages[1].text")}
DetailSeqs == UNION {[1..n -> DetailItems] : n \in 0..MaxDetails}

\* An optional member: absent, or key k with one of the values vs.
Optional(k, vs) == {<<>>} \cup {<<Member(k, v)>> : v \in vs}
Reverse(s) == [i \in 1..Len(s) |-> s[Len(s) + 1 - i]]

RequestIdMembers == Optional("requestId", {JStr("req-1"), JNum})
MessageMembers == Optional("message", {JStr("Request body has 2 error(s)."), JNull})
DetailsMembers ==
    Optional("details", {JArr(d) : d \in DetailSeqs}
                        \cup {JArr(<<JNum>>), JStr("none"), JNull})
DisplayNameMembers == Optional("displayName", {JStr("LINE taro")})

Objects ==
    {JObj(m) : m \in UNION {{a \o b \o c \o d, Reverse(a \o b \o c \o d)} :
                 <<a, b, c, d>> \in RequestIdMembers \X MessageMembers
                                     \X DetailsMembers \X DisplayNameMembers}}
BodyValues == Objects \cup {JNull, JArr(<<>>), JStr("ok"), JNum}

\* The bytes that reach the client: the value as written, cut short, followed
\* by other bytes, nothing at all, or bytes that are no JSON (a page, an image).
Wire(v, m) ==
    CASE m = "intact" -> Serialize(v)
      [] m = "truncated" -> SubSeq(Serialize(v), 1, Len(Serialize(v)) - 1)
      [] m = "trailing" -> Serialize(v) \o <<Junk>>
      [] m = "empty" -> <<>>
      [] m = "junk" -> <<Junk, Junk>>

Bodies ==
    ({"intact", "truncated", "trailing"} \X BodyValues)
    \cup ({"empty", "junk"} \X {JNull})

\* Content-Disposition values that are a media type with well-formed parameters,
WellFormedDispositions ==
    { <<"attachment", ";", "filename", "=", "foo.png">>,
      <<"attachment", ";", "FILENAME", "=", "foo.png">>,
      <<"attachment", ";", "filename", "=", "foo.png", ";">>,
      <<"attachment", ";", "size", "=", "12", ";", "filename", "=", "bar.jpg">>,
      <<"attachment">> }
\* and those that are not: no header, a parameter without a value, no media
\* type, a parameter given twice.
MalformedDispositions ==
    { <<>>,
      <<"attachment", ";", "filename">>,
      <<";", "filename", "=", "foo.png">>,
      <<"attachment", ";", "filename", "=", "a.png", ";", "filename", "=", "b.png">> }
ContentDispositions == WellFormedDispositions \cup MalformedDispositions

Decoders == {"basic", "profile", "content"}

---------------------------------------------------------------------------
(* The decoders applied to a response *)

Init ==
    /\ decoder \in Decoders
    /\ \E st \in StatusCodes, b \in Bodies, h \in ContentDispositions :
          /\ \/ h = <<>>
             \/ decoder = "content" /\ b \in {<<"junk", JNull>>, <<"intact", JObj(<<>>)>>}
          /\ res = [StatusCode |-> st, Header |-> h, Body |-> Wire(b[2], b[1])]
          /\ mangle = b[1]
          /\ bodyVal = b[2]
    /\ pos = 0
    /\ closed = FALSE
    /\ ret = Return(Nil, Nil, NotRead)
    /\ pc = "start"
    /\ callerMessages = <<>> /\ api = "none"
    /\ call = Nil /\ runs = 0 /\ dos = 0 /\ sent = 0
    /\ request = Nil /\ srv = "idle" /\ wire = Nil /\ outcomes = <<>>

\* The decoder returns r.  Its json.Decoder read the stream in chunks: at least
\* the tokens it scanned, and possibly more of what had arrived.
Returns(r) ==
    /\ ret' = r
    /\ pos' \in (IF r.at = NotRead THEN {pos} ELSE r.at..Len(res.Body))
    /\ pc' = "returned"
    /\ UNCHANGED <<res, bodyVal, mangle, decoder, closed>>
    /\ UNCHANGED callVars

DecodeBasic ==
    /\ pc = "start" /\ decoder = "basic"
    /\ Returns(decodeToBasicResponse(res))

DecodeUserProfile ==
    /\ pc = "start" /\ decoder = "profile"
    /\ Returns(decodeToUserProfileResponse(res))

DecodeMessageContent ==
    /\ pc = "start" /\ decoder = "content"
    /\ Returns(decodeToMessageContentResponse(res))

\* The caller of a content endpoint owns result.Content: it reads it ...
ReadContent ==
    /\ pc \in {"returned", "owned"} /\ ret.result.kind = "MessageContentResponse"
    /\ ~closed /\ pos < Len(res.Body)
    /\ pos' = pos + 1
    /\ pc' = "owned"
    /\ UNCHANGED <<res, bodyVal, mangle, decoder, closed, ret>>
    /\ UNCHANGED callVars

\* ... and closes it.
CloseContent ==
    /\ pc \in {"returned", "owned"} /\ ret.result.kind = "MessageContentResponse"
    /\ ~closed
    /\ closed' = TRUE
    /\ pc' = "owned"
    /\ UNCHANGED <<res, bodyVal, mangle, decoder, pos, ret>>
    /\ UNCHANGED callVars

Next ==
    \/ DecodeBasic
    \/ DecodeUserProfile
    \/ DecodeMessageContent
    \/ ReadContent
    \/ CloseContent

Spec == Init /\ [][Next]_vars

---------------------------------------------------------------------------
(* Messages, envelopes and Calls *)

APIEndpointEventsPush == "/v2/bot/message/push"
APIEndpointEventsReply == "/v2/bot/message/reply"

NewTextMessage(text) == [type |-> "text", text |-> text]
NewImageMessage(original, preview) ==
    [type |-> "image", originalContentUrl |-> original, previewImageUrl |-> preview]
NewLocationMessage(title, address, lat, lon) ==
    [type |-> "location", title |-> title, address |-> address,
     latitude |-> lat, longitude |-> lon]
NewStickerMessage(packageId, stickerId) ==
    [type |-> "sticker", packageId |-> packageId, stickerId |-> stickerId]

\* The JSON object of a message: "type" first, then its fields.
MessageJSON(m) ==
    CASE m.type = "text" ->
            JObj(<<Member("type", JStr("text")), Member("text", JStr(m.text))>>)
      [] m.type = "image" ->
            JObj(<<Member("type", JStr("image")),
                   Member("originalContentUrl", JStr(m.originalContentUrl)),
                   Member("previewImageUrl", JStr(m.previewImageUrl))>>)
      [] m.type = "location" ->
            JObj(<<Member("type", JStr("location")),
                   Member("title", JStr(m.title)),
                   Member("address", JStr(m.address)),
                   Member("latitude", JNumber(m.latitude)),
                   Member("longitude", JNumber(m.longitude))>>)
      [] m.type = "sticker" ->
            JObj(<<Member("type", JStr("sticker")),
                   Member("packageId", JStr(m.packageId)),
                   Member("stickerId", JStr(m.stickerId))>>)

\* {"to": ..., "messages": [...]} or {"replyToken": ..., "messages": [...]}
Envelope(selector, target, messages) ==
    JObj(<<Member(selector, JStr(target)),
           Member("messages",
                  JArr([i \in 1..Len(messages) |-> MessageJSON(messages[i])]))>>)

\* client.Push(to, messages): a Call, nothing sent.
Push(to, messages) ==
    [endpoint |-> APIEndpointEventsPush, selector |-> "to",
     target |-> to, messages |-> messages, ctx |-> "none"]

\* Mutant: Reply is bound to the push endpoint.
Reply_PushEndpoint(replyToken, messages) ==
    [endpoint |-> APIEndpointEventsPush, selector |-> "replyToken",
     target |-> replyToken, messages |-> messages, ctx |-> "none"]

\* client.Reply(replyToken, messages): a Call, nothing sent.
Reply(replyToken, messages) ==
    [endpoint |-> APIEndpointEventsReply, selector |-> "replyToken",
     target |-> replyToken, messages |-> messages, ctx |-> "none"]

\* The POST one Do invocation puts on the wire.
RequestOf(c) ==
    [Method |-> "POST", Path |-> c.endpoint,
     Body |-> Serialize(Envelope(c.selector, c.target, c.messages))]

\* ctx.Err() of a context that is done, returned as it is.
ContextError(cause) == [kind |-> "error", from |-> cause]
ContextCauses == {"context canceled", "context deadline exceeded"}

---------------------------------------------------------------------------
(* What callers send and what the platform answers *)

ToUserID == "U0cc15697597f61dd8b01cea8b027050e"
ReplyToken == "nHuyWiB7yP5Zw52FIkcQobQuGDXCTA"

MessageValues ==
    { NewTextMessage(""),
      NewImageMessage("http://example.com/original.jpg",
                      "http://example.com/preview.jpg"),
      NewLocationMessage("title", "address",
                         "35.65910807942215", "139.70372892916203"),
      NewStickerMessage("1", "1") }
MessageSeqs == UNION {[1..n -> MessageValues] : n \in 0..MaxMessages}

BadRequestBody ==
    JObj(<<Member("message", JStr("Request body has 2 error(s).")),
           Member("details", JArr(<<Detail("messages[0].text"),
                                    Detail("messages[1].text")>>))>>)

\* What the test servers answer.
Answers ==
    { [StatusCode |-> StatusOK, mangle |-> "intact", val |-> JObj(<<>>)],
      [StatusCode |-> StatusBadRequest, mangle |-> "intact", val |-> BadRequestBody] }

---------------------------------------------------------------------------
(* The call pipeline: build, Do, answer, return *)

InitCall ==
    /\ res = Nil /\ bodyVal = JNull /\ mangle = "empty" /\ decoder = "basic"
    /\ pos = 0 /\ closed = FALSE
    /\ ret = Return(Nil, Nil, NotRead)
    /\ pc = "idle"
    /\ callerMessages \in MessageSeqs /\ api = "none"
    /\ call = Nil /\ runs = 0 /\ dos = 0 /\ sent = 0
    /\ request = Nil /\ srv = "idle" /\ wire = Nil /\ outcomes = <<>>

\* The caller builds a Call; building sends nothing.
Build(by, c) ==
    /\ pc = "idle"
    /\ api' = by
    /\ call' = c
    /\ runs' = 0
    /\ UNCHANGED <<decVars, pc, callerMessages, dos, sent, request, srv, wire, outcomes>>

BuildPush == Build("Push", Push(ToUserID, callerMessages))

BuildReply == Build("Reply", Reply(ReplyToken, callerMessages))

\* call.WithContext(ctx), with a context that is not done yet.
WithContext ==
    /\ pc = "idle" /\ call # Nil /\ call.ctx = "none" /\ runs = 0
    /\ call' = [call EXCEPT !.ctx = "live"]
    /\ UNCHANGED <<decVars, pc, callerMessages, api, runs, dos, sent, request, srv, wire, outcomes>>

\* Mutant: a second Do on the same Call returns the first one's outcome and
\* sends nothing.
Do_Memoizes ==
    /\ pc = "idle" /\ call # Nil /\ call.ctx \notin ContextCauses
    /\ srv = "idle" /\ dos < MaxDo
    /\ dos' = dos + 1
    /\ runs' = runs + 1
    /\ IF runs = 0
       THEN /\ sent' = sent + 1
            /\ request' = RequestOf(call)
            /\ srv' = "handling"
            /\ pc' = "waiting"
            /\ UNCHANGED outcomes
       ELSE /\ outcomes' = Append(outcomes, outcomes[Len(outcomes)])
            /\ UNCHANGED <<sent, request, srv, pc>>
    /\ UNCHANGED <<decVars, callerMessages, api, call, wire>>

\* call.Do(), up to the point where it blocks: one POST goes out.  Invocations
\* follow one another (Do is synchronous), and a Call whose context is already
\* done is not executed again.
Do ==
    /\ pc = "idle" /\ call # Nil /\ call.ctx \notin ContextCauses
    /\ srv = "idle" /\ dos < MaxDo
    /\ dos' = dos + 1
    /\ runs' = runs + 1
    /\ sent' = sent + 1
    /\ request' = RequestOf(call)
    /\ srv' = "handling"
    /\ pc' = "waiting"
    /\ UNCHANGED <<decVars, callerMessages, api, call, wire, outcomes>>

\* The platform answers the request it is handling, whether or not the client
\* still waits for it.
ServerResponds ==
    /\ srv = "handling"
    /\ \E a \in Answers :
          wire' = [res |-> [StatusCode |-> a.StatusCode, Header |-> <<>>,
                            Body |-> Wire(a.val, a.mangle)],
                   bodyVal |-> a.val, mangle |-> a.mangle]
    /\ srv' = "responded"
    /\ UNCHANGED <<decVars, pc, callerMessages, api, call, runs, dos, sent, request, outcomes>>

\* The round trip completes: Do decodes the response and returns.
DoReturns ==
    /\ pc = "waiting" /\ srv = "responded"
    /\ res' = wire.res /\ bodyVal' = wire.bodyVal /\ mangle' = wire.mangle
    /\ closed' = FALSE
    /\ LET r == decodeToBasicResponse(wire.res) IN
          /\ ret' = r
          /\ pos' \in r.at..Len(wire.res.Body)
          /\ outcomes' = Append(outcomes, [result |-> r.result, err |-> r.err])
    /\ wire' = Nil
    /\ srv' = "idle"
    /\ pc' = "idle"
    /\ UNCHANGED <<decoder, callerMessages, api, call, runs, dos, sent, request>>

\* Mutant: Do does not watch the context and goes on waiting for the answer.
ContextDone_Ignored ==
    /\ pc = "waiting" /\ srv = "handling" /\ call.ctx = "live"
    /\ \E cause \in ContextCauses : call' = [call EXCEPT !.ctx = cause]
    /\ UNCHANGED <<decVars, pc, callerMessages, api, runs, dos, sent, request,
                   srv, wire, outcomes>>

\* The Call's context is cancelled or its deadline elapses while the round trip
\* is not complete: Do returns the context's error at once.
ContextDone ==
    /\ pc = "waiting" /\ srv = "handling" /\ call.ctx = "live"
    /\ \E cause \in ContextCauses :
          /\ call' = [call EXCEPT !.ctx = cause]
          /\ ret' = Return(Nil, ContextError(cause), NotRead)
          /\ outcomes' = Append(outcomes, [result |-> Nil, err |-> ContextError(cause)])
    /\ pc' = "idle"
    /\ UNCHANGED <<res, bodyVal, mangle, decoder, pos, closed,
                   callerMessages, api, runs, dos, sent, request, srv, wire>>

\* An answer nobody waits for is dropped with its connection.
DropLateAnswer ==
    /\ pc = "idle" /\ srv = "responded"
    /\ wire' = Nil
    /\ srv' = "idle"
    /\ UNCHANGED <<decVars, pc, callerMessages, api, call, runs, dos, sent, request, outcomes>>

NextCall ==
    \/ BuildPush
    \/ BuildReply
    \/ WithContext
    \/ Do
    \/ ServerResponds
    \/ DoReturns
    \/ ContextDone
    \/ DropLateAnswer

SpecCall == InitCall /\ [][NextCall]_vars

---------------------------------------------------------------------------
(* What the platform sent, read off the JSON value it serialised: the terms *)
(* in which the properties below are stated, independent of the scanner      *)

\* The body starts with the whole of bodyVal.
FirstValueArrives == mangle \in {"intact", "trailing"}

\* The value of member `key` of object v; null when v has no such member.
Lookup(v, key) ==
    IF \E i \in 1..Len(v.items) : v.items[i].k = key
    THEN v.items[CHOOSE i \in 1..Len(v.items) : v.items[i].k = key].v
    ELSE JNull
StringOf(x) == IF x.t = "str" THEN x.s ELSE ""
IsStringOrNull(x) == x.t \in {"str", "null"}

\* v is null or an object whose members named in keys are strings (or null).
HasStringMembers(v, keys) ==
    \/ v.t = "null"
    \/ v.t = "obj" /\ \A k \in keys : IsStringOrNull(Lookup(v, k))

IsErrorResponse(v) ==
    /\ HasStringMembers(v, {"requestId", "message"})
    /\ LET d == Lookup(v, "details") IN
       \/ d.t = "null"
       \/ /\ d.t = "arr"
          /\ \A i \in 1..Len(d.items) :
                HasStringMembers(d.items[i], {"message", "property"})

SentDetails(v) ==
    LET d == Lookup(v, "details") IN
    [i \in 1..Len(d.items) |->
        [Message |-> StringOf(Lookup(d.items[i], "message")),
         Property |-> StringOf(Lookup(d.items[i], "property"))]]

SentErrorResponse(v) ==
    [RequestID |-> StringOf(Lookup(v, "requestId")),
     Message |-> StringOf(Lookup(v, "message")),
     Details |-> SentDetails(v)]

SentBasicResponse(v) == [RequestID |-> StringOf(Lookup(v, "requestId"))]

SentUserProfileResponse(v) ==
    [RequestID |-> StringOf(Lookup(v, "requestId")),
     UserID |-> StringOf(Lookup(v, "userId")),
     DisplayName |-> StringOf(Lookup(v, "displayName")),
     PicutureURL |-> StringOf(Lookup(v, "pictureUrl")),
     StatusMessage |-> StringOf(Lookup(v, "statusMessage"))]

\* The success shape the call site of each JSON decoder expects.
IsSuccessShape(v) ==
    CASE decoder = "basic" -> HasStringMembers(v, {"requestId"})
      [] decoder = "profile" ->
            HasStringMembers(v, {"requestId", "userId", "displayName",
                                 "pictureUrl", "statusMessage"})
      [] OTHER -> FALSE

\* The word after "filename =" in a header value, whatever the case of the name.
SentFileName(h) ==
    IF \E i \in 1..Len(h) : h[i] \in {"filename", "FILENAME"}
    THEN h[(CHOOSE i \in 1..Len(h) : h[i] \in {"filename", "FILENAME"}) + 2]
    ELSE ""

Returned == pc = "returned"
IsAPIError(e) == e.kind = "APIError"

---------------------------------------------------------------------------
(* Claims about the decoders *)

\* C1: a response whose status is not 200 and whose body is an ErrorResponse
\* decodes, with each decoder, to a nil result and an APIError whose Code is the
\* status and whose Response holds the requestId, message and details sent,
\* the details in the order of the body.
C1_StructuredAPIError ==
    (Returned /\ res.StatusCode # StatusOK
       /\ FirstValueArrives /\ IsErrorResponse(bodyVal))
    => /\ ret.result = Nil
       /\ ret.err = APIError(res.StatusCode, SentErrorResponse(bodyVal))

\* C1 witness: a 201 answered on a content call with two ordered details.
C1_Witness ==
    /\ Returned /\ decoder = "content" /\ res.StatusCode = StatusCreated
    /\ IsAPIError(ret.err) /\ ret.err.Response # Nil
    /\ Len(ret.err.Response.Details) = 2
    /\ ret.err.Response.Details[1].Property = "messages[0].text"
    /\ ret.err.Response.Details[2].Property = "messages[1].text"

\* C2: a response whose status is not 200 and whose body is no ErrorResponse
\* decodes to a nil result and an APIError with the status as Code and no
\* Response; the decode failure is not returned as a plain error.
C2_BareAPIError ==
    (Returned /\ res.StatusCode # StatusOK
       /\ ~(FirstValueArrives /\ IsErrorResponse(bodyVal)))
    => /\ ret.result = Nil
       /\ ret.err = APIError(res.StatusCode, Nil)

\* C2 witness: a 400 whose body is not JSON, on a profile call.
C2_Witness ==
    /\ Returned /\ decoder = "profile" /\ res.StatusCode = StatusBadRequest
    /\ mangle = "junk"
    /\ ret.err = APIError(StatusBadRequest, Nil)

\* C3: a 200 never yields an APIError; a 200 whose body is not the success
\* shape, or a content 200 without a usable Content-Disposition, yields a nil
\* result and a plain error.  An APIError is returned iff the status is not 200.
C3_PlainErrorOn200 ==
    Returned =>
       /\ IsAPIError(ret.err) <=> res.StatusCode # StatusOK
       /\ (res.StatusCode = StatusOK
             /\ \/ decoder # "content"
                   /\ ~(FirstValueArrives /\ IsSuccessShape(bodyVal))
                \/ decoder = "content" /\ res.Header \in MalformedDispositions)
          => ret.result = Nil /\ ret.err.kind = "error"

\* C3 witness: a content 200 with no Content-Disposition header.
C3_Witness ==
    /\ Returned /\ decoder = "content" /\ res.StatusCode = StatusOK
    /\ res.Header = <<>>
    /\ ret.result = Nil /\ ret.err.kind = "error"

\* C4: a 200 whose body is the expected success shape decodes, with
\* decodeToBasicResponse and decodeToUserProfileResponse, to a typed value
\* holding the fields sent and a nil error; {} gives an empty requestId.
C4_TypedSuccess ==
    (Returned /\ res.StatusCode = StatusOK /\ decoder # "content"
       /\ FirstValueArrives /\ IsSuccessShape(bodyVal))
    => /\ ret.err = Nil
       /\ ret.result =
            IF decoder = "basic"
            THEN Value("BasicResponse", SentBasicResponse(bodyVal))
            ELSE Value("UserProfileResponse", SentUserProfileResponse(bodyVal))

\* C4 witness: 200 with body {} on a push/reply call.
C4_Witness ==
    /\ Returned /\ decoder = "basic" /\ res.StatusCode = StatusOK
    /\ res.Body = <<LBrace, RBrace>>
    /\ ret.err = Nil
    /\ ret.result = Value("BasicResponse", [RequestID |-> ""])

\* C8: a content 200 with a well-formed Content-Disposition returns no error and
\* a MessageContentResponse whose FileName is the filename parameter and whose
\* Content is res.Body itself, open and unread when the decoder returns.
C8_ContentStreamHandedOver ==
    (Returned /\ decoder = "content" /\ res.StatusCode = StatusOK
       /\ res.Header \in WellFormedDispositions)
    => /\ ret.err = Nil
       /\ ret.result = Value("MessageContentResponse",
                             [Content |-> "res.Body",
                              FileName |-> SentFileName(res.Header)])
       /\ pos = 0
       /\ ~closed

\* C8 witness: attachment; filename=foo.png in front of a two-chunk stream.
C8_Witness ==
    /\ Returned /\ decoder = "content" /\ res.StatusCode = StatusOK
    /\ res.Header = <<"attachment", ";", "filename", "=", "foo.png">>
    /\ Len(res.Body) = 2
    /\ ret.result.kind = "MessageContentResponse"
    /\ ret.result.val.FileName = "foo.png"

\* C9: when a decoder returns anything but a content response, res.Body has
\* been read to its end and closed.
C9_BodyConsumedAndClosed ==
    (Returned /\ ret.result.kind # "MessageContentResponse")
    => closed /\ pos = Len(res.Body)

\* C10: a decoder returns a result or an error, never both and never neither.
C10_ResultXorError ==
    pc # "start" => (ret.result = Nil) # (ret.err = Nil)

\* C10 witness: both kinds of return are reached; here the error one on 200.
C10_Witness ==
    /\ Returned /\ res.StatusCode = StatusOK
    /\ ret.result = Nil /\ ret.err = PlainError("json")

---------------------------------------------------------------------------
(* Claims about the call pipeline *)

\* What the platform reads in a request body.
ReadMessage(j) ==
    LET type == StringOf(Lookup(j, "type")) IN
    CASE type = "text" -> NewTextMessage(StringOf(Lookup(j, "text")))
      [] type = "image" ->
            NewImageMessage(StringOf(Lookup(j, "originalContentUrl")),
                            StringOf(Lookup(j, "previewImageUrl")))
      [] type = "location" ->
            NewLocationMessage(StringOf(Lookup(j, "title")),
                               StringOf(Lookup(j, "address")),
                               Lookup(j, "latitude").s, Lookup(j, "longitude").s)
      [] type = "sticker" ->
            NewStickerMessage(StringOf(Lookup(j, "packageId")),
                              StringOf(Lookup(j, "stickerId")))
      [] OTHER -> Nil
ReadMessages(j) == [i \in 1..Len(j.items) |-> ReadMessage(j.items[i])]
Keys(v) == [i \in 1..Len(v.items) |-> v.items[i].k]

\* C5: when the context of a Push or Reply call is done before the round trip
\* completes, Do returns the context's error and no response, and an answer
\* of the platform that arrives afterwards changes nothing of it.
C5_ContextErrorStands ==
    (call # Nil /\ call.ctx \in ContextCauses)
    => /\ pc = "idle"
       /\ ret.result = Nil
       /\ ret.err = ContextError(call.ctx)
       /\ Len(outcomes) > 0
       /\ outcomes[Len(outcomes)] = [result |-> Nil, err |-> ContextError(call.ctx)]

\* C5 witness: the deadline elapsed, Do returned it, and then a 200 arrived.
C5_Witness ==
    /\ call # Nil /\ call.ctx = "context deadline exceeded" /\ pc = "idle"
    /\ srv = "responded" /\ wire.res.StatusCode = StatusOK
    /\ ret.err = ContextError("context deadline exceeded")
    /\ ret.result = Nil

\* C6: the request of Push(userId, messages).Do() is a POST to the push
\* endpoint whose envelope carries "to" = userId, that of Reply(token,
\* messages).Do() a POST to the reply endpoint, a different path, whose envelope
\* carries "replyToken" = token; the envelope's messages are the caller's, in
\* the caller's order, none added, dropped or altered.
C6_EnvelopeCarriesCall ==
    runs > 0 =>
       LET e == ScanValue(request.Body, 1)
           selector == IF api = "Push" THEN "to" ELSE "replyToken"
       IN /\ request.Method = "POST"
          /\ APIEndpointEventsPush # APIEndpointEventsReply
          /\ request.Path = (IF api = "Push" THEN APIEndpointEventsPush
                             ELSE APIEndpointEventsReply)
          /\ e.ok /\ e.next = Len(request.Body) + 1
          /\ Keys(e.v) = <<selector, "messages">>
          /\ Lookup(e.v, selector) =
                JStr(IF api = "Push" THEN ToUserID ELSE ReplyToken)
          /\ ReadMessages(Lookup(e.v, "messages")) = callerMessages

\* C6 witness: a reply with two different messages, the second an empty text.
C6_Witness ==
    /\ runs > 0 /\ api = "Reply"
    /\ Len(callerMessages) = 2
    /\ callerMessages[1].type = "location"
    /\ callerMessages[2] = NewTextMessage("")
    /\ request.Path = APIEndpointEventsReply

====
